---- MODULE Spec2Model ----
(***************************************************************************)
(* Model of autotest/gdrivers/ogcapi.py: the fixture key derivation        *)
(* (sanitize_url), the replay/record HTTP handler (OGCAPIHTTPHandler) and  *)
(* the module-scoped server fixture (init).                                *)
(*                                                                         *)
(* Python str and bytes values are modelled as sequences of one-character  *)
(* strings, so that replace(), re.sub() and concatenation are computed     *)
(* character by character as the interpreter computes them.                *)
(***************************************************************************)
EXTENDS Integers, Sequences, FiniteSets, TLC

\* ------------------------------------------------------------------------
\* Bounds of the model
\* ------------------------------------------------------------------------

\* number of pieces a generated request path is concatenated from
MaxPieces == 4

\* number of pieces a generated fixture body is concatenated from
MaxBodyPieces == 3

\* number of tests of the module that are run
MaxTests == 2

\* ------------------------------------------------------------------------
\* Character classes and literals
\* ------------------------------------------------------------------------

\* \d of the two regular expressions
Digit == {"0", "1", "2", "3", "4", "5", "6", "7", "8", "9"}

\* number of digits REPLACE_PORT_RE takes for the port: \d{4}
PortDigits == 4

\* number of fractional digits REPLACE_PRECISION_RE keeps: \d{4}
PrecisionDigits == 4

\* "https://maps.gnosis.earth/ogcapi"
TEST_DATA_SOURCE_ENDPOINT ==
    << "h", "t", "t", "p", "s", ":", "/", "/", "m", "a", "p", "s", ".",
       "g", "n", "o", "s", "i", "s", ".", "e", "a", "r", "t", "h",
       "/", "o", "g", "c", "a", "p", "i" >>

\* urllib.parse.urlsplit(TEST_DATA_SOURCE_ENDPOINT).path: what follows the
\* authority, i.e. "/ogcapi"
ENDPOINT_PATH ==
    SubSeq(TEST_DATA_SOURCE_ENDPOINT, 26, Len(TEST_DATA_SOURCE_ENDPOINT))

\* the marker "/fakeogcapi" of a synthetic request
FakeMarker == << "/", "f", "a", "k", "e", "o", "g", "c", "a", "p", "i" >>

\* "_fakeogcapi", what the marker has become after the reserved characters
\* are replaced
SanitizedMarker == << "_" >> \o Tail(FakeMarker)

\* "request"
RequestLiteral == << "r", "e", "q", "u", "e", "s", "t" >>

\* ".http_data"
DataSuffix == << ".", "h", "t", "t", "p", "_", "d", "a", "t", "a" >>

\* chars = "&#/?=:,()"
ReservedChars == << "&", "#", "/", "?", "=", ":", ",", "(", ")" >>

\* "http://"
HttpScheme == << "h", "t", "t", "p", ":", "/", "/" >>

\* the literal part of REPLACE_PORT_RE, rb"http://127.0.0.1:"; an unescaped
\* "." of the pattern matches any byte but a newline and is written "ANY"
PortPattern ==
    << "h", "t", "t", "p", ":", "/", "/", "1", "2", "7", "ANY", "0", "ANY",
       "0", "ANY", "1", ":" >>

\* ------------------------------------------------------------------------
\* Built-ins of the interpreter used by the code
\* ------------------------------------------------------------------------

\* the least of a non-empty set of numbers
Least(S) == CHOOSE i \in S : \A j \in S : i <= j

\* the places of s where sub occurs
Occurrences(s, sub) ==
    { i \in 1..(Len(s) - Len(sub) + 1) : SubSeq(s, i, i + Len(sub) - 1) = sub }

\* s.find(sub) != -1
Contains(s, sub) == Occurrences(s, sub) # {}

\* s.replace(old, new): the occurrences are taken leftmost first and do not
\* overlap; old is never empty here
RECURSIVE Replace(_, _, _)
Replace(s, old, new) ==
    IF ~Contains(s, old) THEN s
    ELSE LET i == Least(Occurrences(s, old))
         IN  SubSeq(s, 1, i - 1) \o new
             \o Replace(SubSeq(s, i + Len(old), Len(s)), old, new)

\* length of the longest prefix of s made of digits (a greedy \d*)
DigitRun(s) ==
    LET stops == { i \in 1..Len(s) : s[i] \notin Digit }
    IN  IF stops = {} THEN Len(s) ELSE Least(stops) - 1

\* str(n) for n >= 0
RECURSIVE IntToStr(_)
IntToStr(n) ==
    LET d == << "0", "1", "2", "3", "4", "5", "6", "7", "8", "9" >>[(n % 10) + 1]
    IN  IF n < 10 THEN << d >> ELSE IntToStr(n \div 10) \o << d >>

\* ------------------------------------------------------------------------
\* sanitize_url
\* ------------------------------------------------------------------------

\* for c in chars: text = text.replace(c, "_"), from the i-th character on
RECURSIVE ReplaceReserved(_, _)
ReplaceReserved(text, i) ==
    IF i > Len(ReservedChars) THEN text
    ELSE ReplaceReserved(Replace(text, << ReservedChars[i] >>, << "_" >>), i + 1)

\* length of the match of (\d+\.\d{4})\d+ at the start of s, 0 when there is
\* none.  \d+ is greedy and a shorter integer part is followed by a digit,
\* never by the point, so backtracking finds nothing the longest run misses.
PrecisionMatchLen(s) ==
    LET n == DigitRun(s)
        rest == SubSeq(s, n + 2, Len(s))
        f == DigitRun(rest)
    IN  IF n >= 1 /\ Len(s) >= n + 1 /\ s[n + 1] = "." /\ f >= PrecisionDigits + 1
        THEN n + 1 + f
        ELSE 0

\* mutant of PrecisionGroupLen: the replacement is the whole match, "\\0"
PrecisionGroupLen_WholeMatch(s) == PrecisionMatchLen(s)

\* length of group 1 of that match: the integer part, the point and the
\* first four fractional digits
PrecisionGroupLen(s) == DigitRun(s) + 1 + PrecisionDigits

\* the places of text where (\d+\.\d{4})\d+ matches
PrecisionMatches(text) ==
    { i \in 1..Len(text) : PrecisionMatchLen(SubSeq(text, i, Len(text))) > 0 }

\* REPLACE_PRECISION_RE.sub("\\1", text): scan from the left, replace each
\* match by its group 1 and go on after the match
RECURSIVE PrecisionSub(_)
PrecisionSub(text) ==
    IF PrecisionMatches(text) = {} THEN text
    ELSE LET i == Least(PrecisionMatches(text))
             m == SubSeq(text, i, Len(text))
         IN  SubSeq(text, 1, i - 1) \o SubSeq(m, 1, PrecisionGroupLen(m))
             \o PrecisionSub(SubSeq(m, PrecisionMatchLen(m) + 1, Len(m)))

sanitize_url(url) ==
    Replace(PrecisionSub(ReplaceReserved(url, 1)), SanitizedMarker, RequestLiteral)

\* ------------------------------------------------------------------------
\* REPLACE_PORT_RE
\* ------------------------------------------------------------------------

\* whether REPLACE_PORT_RE matches at the start of data
PortMatch(data) ==
    /\ Len(data) >= Len(PortPattern) + PortDigits
    /\ \A i \in 1..Len(PortPattern) :
          IF PortPattern[i] = "ANY" THEN data[i] # "\n" ELSE data[i] = PortPattern[i]
    /\ \A i \in 1..PortDigits : data[Len(PortPattern) + i] \in Digit

\* the places of data where REPLACE_PORT_RE matches
PortMatches(data) ==
    { i \in 1..Len(data) : PortMatch(SubSeq(data, i, Len(data))) }

\* REPLACE_PORT_RE.sub(repl, data): scan from the left, replace each match
\* and go on after the match
RECURSIVE PortSub(_, _)
PortSub(repl, data) ==
    IF PortMatches(data) = {} THEN data
    ELSE LET i == Least(PortMatches(data))
         IN  SubSeq(data, 1, i - 1) \o repl
             \o PortSub(repl, SubSeq(data, i + Len(PortPattern) + PortDigits, Len(data)))

\* ------------------------------------------------------------------------
\* Literals of the handler
\* ------------------------------------------------------------------------

\* b"HTTP/1.1 "
StatusPrefix == << "H", "T", "T", "P", "/", "1", ".", "1", " " >>

\* b"\r\n"
CRLF == << "\r", "\n" >>

\* b": "
HeaderSep == << ":", " " >>

\* "Content-Encoding"
ContentEncoding == << "C", "o", "n", "t", "e", "n", "t", "-", "E", "n", "c", "o", "d", "i", "n", "g" >>

\* "Content-Length"
ContentLength == << "C", "o", "n", "t", "e", "n", "t", "-", "L", "e", "n", "g", "t", "h" >>

\* "Content-Type", a header that is copied as it is
ContentType == << "C", "o", "n", "t", "e", "n", "t", "-", "T", "y", "p", "e" >>

\* "File Not Found: "
NotFoundPrefix == << "F", "i", "l", "e", " ", "N", "o", "t", " ", "F", "o", "u", "n", "d", ":", " " >>

\* self.address_string(): the host of the client, which connects from the
\* loopback interface
ClientAddress == << "1", "2", "7", ".", "0", ".", "0", ".", "1" >>

\* ------------------------------------------------------------------------
\* Inputs of the model
\* ------------------------------------------------------------------------

\* ports webserver.launch may hand out (0 stands for a failed launch and is
\* not among them); one of three, one of four and one of five digits
Ports == {808, 8080, 18080}

\* ports the fixtures of the repository may have been recorded against
RecordedPorts == {8081}

\* request paths of the tests: the root of the synthetic endpoint, a path
\* with the marker further in, a path without the marker that has the same
\* key, and test_wrong_url's path
RootPath == FakeMarker
InnerPath == << "/", "x" >> \o FakeMarker
PlainPath == << "/", "x", "r", "e", "q", "u", "e", "s", "t" >>
WrongPath == << "/", "N", "O", "T", "_", "F", "O", "U", "N", "D", "/" >>
TestPaths == {RootPath, InnerPath, PlainPath, WrongPath}

\* pieces the generated request paths are concatenated from: two reserved
\* characters, the filler, the marker's word, the word it is replaced by, a
\* number of four fractional digits, a digit and a point
PathPieces ==
    { << "/" >>, << "?" >>, << "_" >>, Tail(FakeMarker), RequestLiteral,
      << "1", ".", "5", "4", "2", "1" >>, << "9" >>, << "." >> }

\* the concatenations of at most n of the pieces
RECURSIVE Concatenations(_, _)
Concatenations(pieces, n) ==
    IF n = 0 THEN { << >> }
    ELSE LET shorter == Concatenations(pieces, n - 1)
         IN  shorter \cup { a \o b : a \in shorter, b \in pieces }

GeneratedPaths == Concatenations(PathPieces, MaxPieces)

\* ports the fixtures may have been recorded against, of three, four and
\* five digits
OldPorts == {808, 8081, 18080}

\* what the upstream server may answer (requests.Response): a body that
\* links to the server by its full URL, and one that links by path only
UpstreamResponses ==
    { [ status_code |-> 200, reason |-> << "O", "K" >>,
        headers |-> << << ContentEncoding, << "g", "z", "i", "p" >> >>,
                       << ContentLength, << "7" >> >>,
                       << ContentType, << "j" >> >> >>,
        content |-> << "[" >> \o TEST_DATA_SOURCE_ENDPOINT \o << "/", "c", "]" >> ],
      [ status_code |-> 404, reason |-> << "N", "o", "t", " ", "F", "o", "u", "n", "d" >>,
        headers |-> << << ContentLength, << "9", "9" >> >> >>,
        content |-> ENDPOINT_PATH \o << "?", "f" >> ] }

\* pieces the generated upstream bodies are concatenated from: the upstream
\* endpoint, its path, a digit, and a loopback URL of the upstream's own
BodyPieces ==
    { TEST_DATA_SOURCE_ENDPOINT, ENDPOINT_PATH, << "7" >>,
      HttpScheme \o ClientAddress \o << ":", "9", "0", "9", "0" >> }

GeneratedResponses ==
    { [ status_code |-> 200, reason |-> << "O", "K" >>,
        headers |-> << << ContentLength, << "1" >> >> >>,
        content |-> b ] : b \in Concatenations(BodyPieces, MaxBodyPieces) }

\* what can go wrong in one request: nothing, open() fails, fd.read() fails,
\* requests.get fails, fd.write fails, the client's connection fails while
\* the bytes are written to it (and send_error then still gets through, or
\* fails as well)
Faults == {"none", "open", "read", "fetch", "fdwrite", "client", "client_gone"}

\* how much of the bytes a failed write has put out: nothing, or all but
\* the last byte
Cuts == {"nothing", "most"}

\* a fault and, for a failed write, how far the write got
WriteFaults == {"fdwrite", "client", "client_gone"}

RequestInputs ==
    { [ fault |-> f, cut |-> "nothing" ] : f \in Faults \ WriteFaults }
        \cup { [ fault |-> f, cut |-> c ] : f \in WriteFaults, c \in Cuts }

Partial(data, cut) ==
    IF cut = "nothing" \/ data = << >> THEN << >> ELSE SubSeq(data, 1, Len(data) - 1)

\* ------------------------------------------------------------------------
\* OGCAPIHTTPHandler.do_GET
\* ------------------------------------------------------------------------

\* "http://" + self.address_string() + ":" + str(self.server.server_port)
BaseUri(port) == HttpScheme \o ClientAddress \o << ":" >> \o IntToStr(port)

\* local_uri of the recording branch
LocalUri(port) == BaseUri(port) \o FakeMarker

\* the header lines of a recorded response, from the i-th header on:
\* Content-Encoding is dropped, Content-Length is set to the length of the
\* rewritten content, every other header is copied
RECURSIVE HeaderLines(_, _, _)
HeaderLines(headers, content, i) ==
    IF i > Len(headers) THEN << >>
    ELSE LET k == headers[i][1]
             v == headers[i][2]
             line == IF k = ContentEncoding THEN << >>
                     ELSE IF k = ContentLength
                          THEN k \o HeaderSep \o IntToStr(Len(content)) \o CRLF
                          ELSE k \o HeaderSep \o v \o CRLF
         IN  line \o HeaderLines(headers, content, i + 1)

\* response.content with the upstream endpoint, then the upstream path,
\* replaced by local_uri
RewriteContent(content, port) ==
    Replace(Replace(content, TEST_DATA_SOURCE_ENDPOINT, LocalUri(port)),
            ENDPOINT_PATH, LocalUri(port))

\* data of the recording branch: status line, headers, blank line, content
RecordData(response, port) ==
    LET content == RewriteContent(response.content, port)
    IN  StatusPrefix \o IntToStr(response.status_code) \o << " " >> \o response.reason
        \o CRLF \o HeaderLines(response.headers, content, 1) \o CRLF \o content

\* mutant of ReplayData: the replacement lacks the port
ReplayData_WithoutPort(data, port) == PortSub(HttpScheme \o ClientAddress, data)

\* the response of the replay branch
ReplayData(data, port) == PortSub(BaseUri(port), data)

\* request_data_path below BASE_TEST_DATA_PATH
RequestDataPath(path) == sanitize_url(path) \o DataSuffix

is_fake(path) == Contains(path, FakeMarker)

\* The values the handler computes for the paths, responses and files of the
\* model are computed once and looked up in the actions.
NameOf == [ p \in TestPaths |-> RequestDataPath(p) ]

IsFake == [ p \in TestPaths |-> is_fake(p) ]

Recorded == [ r \in UpstreamResponses, p \in Ports \cup RecordedPorts |-> RecordData(r, p) ]

RecordedData == { Recorded[r, p] : r \in UpstreamResponses, p \in RecordedPorts }

Replayed == [ d \in RecordedData, p \in Ports |-> ReplayData(d, p) ]

NameFor(path) == IF path \in TestPaths THEN NameOf[path] ELSE RequestDataPath(path)

FakeFor(path) == IF path \in TestPaths THEN IsFake[path] ELSE is_fake(path)

RecordFor(response, port) ==
    IF response \in UpstreamResponses /\ port \in Ports
    THEN Recorded[response, port] ELSE RecordData(response, port)

ReplayFor(data, port) ==
    IF data \in RecordedData /\ port \in Ports
    THEN Replayed[data, port] ELSE ReplayData(data, port)

VARIABLES
    RECORD,             \* the module's RECORD toggle
    RECORD_NEW_ONLY,    \* the module's RECORD_NEW_ONLY toggle
    fixtures,           \* the files of BASE_TEST_DATA_PATH: name -> bytes
    webserver_process,  \* gdaltest.webserver_process: "none", "running", "stopped"
    webserver_port,     \* gdaltest.webserver_port
    pc,                 \* where the module's run is: "setup", "yield", "skipped", "done"
    tests_left,         \* tests of the module still to run
    test_active,        \* a test is running
    results,            \* outcomes of the tests run so far
    req                 \* the request handled for the running test, if any

vars == << RECORD, RECORD_NEW_ONLY, fixtures, webserver_process, webserver_port,
           pc, tests_left, test_active, results, req >>

NoRequest == [ path |-> << >>, handled |-> FALSE ]

\* what one call of do_GET has done
Outcome(path, fault, opened, fetched, wrote, served, error, raised) ==
    [ path |-> path, handled |-> TRUE, name |-> NameFor(path),
      fault |-> fault, opened |-> opened, fetched |-> fetched,
      wrote |-> wrote, served |-> served, error |-> error,
      message |-> IF error = 404 THEN NotFoundPrefix \o path ELSE << >>,
      raised |-> raised ]

\* self.send_error(404, ...) after the try block
SendNotFound(path, fault, opened, fetched, files) ==
    [ files |-> files,
      out |-> Outcome(path, fault, opened, fetched, << >>, FALSE, 404, FALSE) ]

\* self.wfile.write(data) and what follows it: return, or the IOError of a
\* failed write, which the except clause takes to send_error
WriteToClient(path, fault, cut, opened, fetched, data, files) ==
    [ files |-> files,
      out |-> IF fault = "client"
              THEN Outcome(path, fault, opened, fetched, Partial(data, cut),
                           FALSE, 404, FALSE)
              ELSE IF fault = "client_gone"
              THEN Outcome(path, fault, opened, fetched, Partial(data, cut),
                           FALSE, 0, TRUE)
              ELSE Outcome(path, "none", opened, fetched, data, TRUE, 0, FALSE) ]

\* the branch "if RECORD_NEW_ONLY and os.path.exists(request_data_path)"
ServeRecorded(path, fault, cut, files) ==
    LET name == NameFor(path)
    IN  IF fault \in {"open", "read"}
        THEN SendNotFound(path, fault, "rb", FALSE, files)
        ELSE WriteToClient(path, fault, cut, "rb", FALSE, files[name], files)

\* open(request_data_path, "wb+"): the file is created, or cut to no bytes
OpenTruncate(files, name) ==
    [ n \in DOMAIN files \cup {name} |-> IF n = name THEN << >> ELSE files[n] ]

\* fd.write(data), in full or in part
WriteFile(files, name, data) ==
    [ n \in DOMAIN files \cup {name} |-> IF n = name THEN data ELSE files[n] ]

\* the else branch of the recording: open for writing, fetch, build, write
FetchAndRecord(path, fault, cut, response, port, files) ==
    LET name == NameFor(path)
        data == RecordFor(response, port)
    IN  IF fault = "open"
        THEN SendNotFound(path, fault, "wb+", FALSE, files)
        ELSE IF fault = "fetch"
        THEN \* requests.exceptions.RequestException derives from IOError
             SendNotFound(path, fault, "wb+", TRUE, OpenTruncate(files, name))
        ELSE IF fault = "fdwrite"
        THEN SendNotFound(path, fault, "wb+", TRUE,
                          WriteFile(OpenTruncate(files, name), name, Partial(data, cut)))
        ELSE WriteToClient(path, fault, cut, "wb+", TRUE, data,
                           WriteFile(OpenTruncate(files, name), name, data))

\* mutant of RecordBranch: RECORD_NEW_ONLY is not looked at
RecordBranch_AlwaysFetch(path, fault, cut, response, port, files, new_only) ==
    FetchAndRecord(path, fault, cut, response, port, files)

\* the branch "if is_fake and RECORD"
RecordBranch(path, fault, cut, response, port, files, new_only) ==
    IF new_only /\ NameFor(path) \in DOMAIN files
    THEN ServeRecorded(path, fault, cut, files)
    ELSE FetchAndRecord(path, fault, cut, response, port, files)

\* mutant of ReplayBranch: the file is opened "ab+", which creates it when
\* there is none
ReplayBranch_Creating(path, fault, cut, port, files) ==
    LET name == NameFor(path)
        opened == IF name \in DOMAIN files THEN files ELSE OpenTruncate(files, name)
    IN  IF fault \in {"open", "read"}
        THEN SendNotFound(path, fault, "ab+", FALSE, files)
        ELSE WriteToClient(path, fault, cut, "ab+", FALSE,
                           ReplayFor(opened[name], port), opened)

\* mutant of ReplayBranch: the file is opened "wb+", which cuts it to no
\* bytes
ReplayBranch_Truncating(path, fault, cut, port, files) ==
    LET name == NameFor(path)
    IN  IF fault \in {"open", "read"}
        THEN SendNotFound(path, fault, "wb+", FALSE, files)
        ELSE WriteToClient(path, fault, cut, "wb+", FALSE, << >>,
                           OpenTruncate(files, name))

\* the branch "elif self.path.find("/fakeogcapi") != -1": open(.., "rb+")
\* fails when there is no such file
ReplayBranch(path, fault, cut, port, files) ==
    LET name == NameFor(path)
    IN  IF name \notin DOMAIN files
        THEN SendNotFound(path, "none", "rb+", FALSE, files)
        ELSE IF fault \in {"open", "read"}
        THEN SendNotFound(path, fault, "rb+", FALSE, files)
        ELSE WriteToClient(path, fault, cut, "rb+", FALSE,
                           ReplayFor(files[name], port), files)

\* mutant of do_GET: the replay branch is taken whatever the path
Handle_NoMarkerCheck(path, fault, cut, response, port, files, record, new_only) ==
    IF FakeFor(path) /\ record
    THEN RecordBranch(path, fault, cut, response, port, files, new_only)
    ELSE ReplayBranch(path, fault, cut, port, files)

\* do_GET as a whole: the files and the outcome it leaves
Handle(path, fault, cut, response, port, files, record, new_only) ==
    IF FakeFor(path) /\ record
    THEN RecordBranch(path, fault, cut, response, port, files, new_only)
    ELSE IF FakeFor(path)
    THEN ReplayBranch(path, fault, cut, port, files)
    ELSE SendNotFound(path, "none", "none", FALSE, files)

do_GET(path, fault, cut, response) ==
    /\ webserver_process = "running"
    /\ test_active
    /\ LET h == Handle(path, fault, cut, response, webserver_port, fixtures,
                       RECORD, RECORD_NEW_ONLY)
       IN  /\ fixtures' = h.files
           /\ req' = h.out
    /\ UNCHANGED << RECORD, RECORD_NEW_ONLY, webserver_process, webserver_port,
                    pc, tests_left, test_active, results >>

\* the upstream server answers when it is asked: in a recording, for a
\* synthetic path
NoResponse == [ status_code |-> 0, reason |-> << >>, headers |-> << >>, content |-> << >> ]

Upstream(path) ==
    IF RECORD /\ FakeFor(path) THEN UpstreamResponses ELSE {NoResponse}

\* ------------------------------------------------------------------------
\* init, the module-scoped fixture, and the tests it surrounds
\* ------------------------------------------------------------------------

\* webserver.launch(handler=OGCAPIHTTPHandler): a running process and its
\* port, or no process and port 0
LaunchResults ==
    { [ process |-> "running", port |-> p ] : p \in Ports }
        \cup { [ process |-> "none", port |-> 0 ] }

\* mutant of init: the module is not skipped when the launch has failed
Launch_NoSkip(r) ==
    /\ pc = "setup"
    /\ webserver_process' = r.process
    /\ webserver_port' = r.port
    /\ pc' = "yield"
    /\ UNCHANGED << RECORD, RECORD_NEW_ONLY, fixtures, tests_left, test_active,
                    results, req >>

\* init up to its yield: launch, and skip the module when the port is 0
Launch(r) ==
    /\ pc = "setup"
    /\ webserver_process' = r.process
    /\ webserver_port' = r.port
    /\ pc' = IF r.port = 0 THEN "skipped" ELSE "yield"
    /\ UNCHANGED << RECORD, RECORD_NEW_ONLY, fixtures, tests_left, test_active,
                    results, req >>

\* a test of the module starts, once the fixture has yielded
StartTest ==
    /\ pc = "yield"
    /\ ~test_active
    /\ tests_left > 0
    /\ test_active' = TRUE
    /\ UNCHANGED << RECORD, RECORD_NEW_ONLY, fixtures, webserver_process,
                    webserver_port, pc, tests_left, results, req >>

\* the running test ends, passed or failed; its connection is gone
EndTest(outcome) ==
    /\ test_active
    /\ test_active' = FALSE
    /\ tests_left' = tests_left - 1
    /\ results' = Append(results, outcome)
    /\ req' = NoRequest
    /\ UNCHANGED << RECORD, RECORD_NEW_ONLY, fixtures, webserver_process,
                    webserver_port, pc >>

\* init after its yield: webserver.server_stop
Teardown ==
    /\ pc = "yield"
    /\ ~test_active
    /\ tests_left = 0
    /\ webserver_process' = "stopped"
    /\ pc' = "done"
    /\ UNCHANGED << RECORD, RECORD_NEW_ONLY, fixtures, webserver_port, tests_left,
                    test_active, results, req >>

\* ------------------------------------------------------------------------
\* The module's run
\* ------------------------------------------------------------------------

\* names of the fixture files the store may hold at the start
FixtureNames == { NameOf[RootPath], NameOf[InnerPath] }

InitialStores ==
    UNION { [ names -> RecordedData ] : names \in SUBSET FixtureNames }

Init ==
    /\ RECORD \in BOOLEAN
    /\ RECORD_NEW_ONLY \in BOOLEAN
    /\ fixtures \in InitialStores
    /\ webserver_process = "none"
    /\ webserver_port = 0
    /\ pc = "setup"
    /\ tests_left = MaxTests
    /\ test_active = FALSE
    /\ results = << >>
    /\ req = NoRequest

Next ==
    \/ \E r \in LaunchResults : Launch(r)
    \/ StartTest
    \/ \E p \in TestPaths, i \in RequestInputs :
          \E u \in Upstream(p) : do_GET(p, i.fault, i.cut, u)
    \/ \E o \in {"passed", "failed"} : EndTest(o)
    \/ Teardown

Spec == Init /\ [][Next]_vars

\* pytest runs the fixture's setup, every test and the fixture's teardown
\* to their end; nothing obliges a client to send a request
LiveSpec ==
    /\ Spec
    /\ WF_vars(\E r \in LaunchResults : Launch(r))
    /\ WF_vars(StartTest)
    /\ WF_vars(\E o \in {"passed", "failed"} : EndTest(o))
    /\ WF_vars(Teardown)

\* ------------------------------------------------------------------------
\* The key derivation on generated paths: a test is running against the
\* launched server, in replay mode, and requests any of the paths
\* ------------------------------------------------------------------------

EmptyStore == [ n \in {} |-> << >> ]

InitKey ==
    /\ RECORD = FALSE
    /\ RECORD_NEW_ONLY = TRUE
    /\ fixtures = EmptyStore
    /\ webserver_process = "running"
    /\ webserver_port = 8080
    /\ pc = "yield"
    /\ tests_left = 1
    /\ test_active = TRUE
    /\ results = << >>
    /\ req = NoRequest

\* the test sends one request
NextKey ==
    /\ ~req.handled
    /\ \E p \in GeneratedPaths : do_GET(p, "none", "nothing", NoResponse)

SpecKey == InitKey /\ [][NextKey]_vars

\* ------------------------------------------------------------------------
\* The replay of recorded fixtures: the store holds the fixture of the root
\* path, recorded against some port from some upstream body, and a test
\* requests it from the launched server
\* ------------------------------------------------------------------------

InitReplay ==
    /\ RECORD = FALSE
    /\ RECORD_NEW_ONLY = TRUE
    /\ \E r \in GeneratedResponses, p \in OldPorts :
          fixtures = [ n \in { NameOf[RootPath] } |-> RecordData(r, p) ]
    /\ webserver_process = "running"
    /\ webserver_port \in Ports
    /\ pc = "yield"
    /\ tests_left = 1
    /\ test_active = TRUE
    /\ results = << >>
    /\ req = NoRequest

\* the test sends one request
NextReplay ==
    /\ ~req.handled
    /\ do_GET(RootPath, "none", "nothing", NoResponse)

SpecReplay == InitReplay /\ [][NextReplay]_vars

\* ------------------------------------------------------------------------
\* Properties
\* ------------------------------------------------------------------------

\* the request path contains the marker of a synthetic request
Synthetic(path) == Occurrences(path, FakeMarker) # {}

\* C1: a GET whose path does not contain "/fakeogcapi" is answered, in
\* replay and in recording mode, with 404 "File Not Found: <path>"; no
\* fixture file is opened, nothing is fetched from upstream, no fixture byte
\* is sent and the fixture store is left as it was.
C1_NonSyntheticNotFound ==
    [][ (req'.handled /\ ~Synthetic(req'.path))
        => /\ req'.error = 404
           /\ req'.message = NotFoundPrefix \o req'.path
           /\ req'.opened = "none"
           /\ ~req'.fetched
           /\ req'.wrote = << >>
           /\ ~req'.served
           /\ fixtures' = fixtures ]_vars

\* C1 witness: in recording mode a path without the marker got its 404
\* although a fixture file of its key exists.
C1_Witness ==
    /\ RECORD
    /\ req.handled
    /\ req.path = PlainPath
    /\ req.name \in DOMAIN fixtures
    /\ req.error = 404

\* C2: in replay mode a synthetic GET whose fixture file is missing, or
\* cannot be opened or read, is answered with a 404 whose message contains
\* the path as requested; no fixture byte is sent and no file is created.
C2_MissingFixtureNotFound ==
    [][ ( /\ req'.handled
          /\ ~RECORD
          /\ Synthetic(req'.path)
          /\ (req'.name \notin DOMAIN fixtures \/ req'.fault \in {"open", "read"}) )
        => /\ req'.error = 404
           /\ Contains(req'.message, req'.path)
           /\ req'.wrote = << >>
           /\ ~req'.served
           /\ DOMAIN fixtures' = DOMAIN fixtures ]_vars

\* C2 witness: replay mode, a synthetic path whose fixture file does not
\* exist, answered with 404.
C2_Witness ==
    /\ ~RECORD
    /\ req.handled
    /\ Synthetic(req.path)
    /\ req.name \notin DOMAIN fixtures
    /\ req.error = 404
    /\ req.opened = "rb+"

\* the data holds the local_uri of a recording against the port, and but
\* for it no loopback URL and nothing that REPLACE_PORT_RE matches
RecordedAgainst(data, port) ==
    LET rest == Replace(data, LocalUri(port), << >>)
    IN  /\ Contains(data, LocalUri(port))
        /\ ~Contains(rest, HttpScheme \o ClientAddress)
        /\ PortMatches(rest) = {}

\* the data with each "http://127.0.0.1:<old>" replaced by
\* "http://<address>:<new>" and every other byte as it is
Rebased(data, old, new) == Replace(data, BaseUri(old), BaseUri(new))

\* C3 as claimed: in replay mode the bytes served for a fixture recorded
\* against any port are the fixture with each embedded base URL of that port
\* replaced by the base URL of the serving port, whatever the number of
\* digits of the recorded port.
C3_AnyPortRewritten ==
    (req.handled /\ req.served)
        => \A old \in OldPorts :
              RecordedAgainst(fixtures[req.name], old)
                  => req.wrote = Rebased(fixtures[req.name], old, webserver_port)

\* C3 as amended: the same for a fixture recorded against a port of exactly
\* four digits; a recorded port of fewer digits is served as recorded, and
\* of a recorded port of more digits the first four are replaced and the
\* rest stays behind the new port.
C3_FourDigitPortRewritten ==
    (req.handled /\ req.served)
        => \A old \in OldPorts :
              RecordedAgainst(fixtures[req.name], old)
                  => LET digits == Len(IntToStr(old))
                         data == fixtures[req.name]
                     IN  /\ digits = PortDigits
                            => req.wrote = Rebased(data, old, webserver_port)
                         /\ digits < PortDigits => req.wrote = data
                         /\ digits > PortDigits
                            => req.wrote =
                                 Replace(data, BaseUri(old),
                                         BaseUri(webserver_port)
                                           \o SubSeq(IntToStr(old), PortDigits + 1, digits))

\* C3 witness: a fixture recorded against a four-digit port has been served
\* from another port, rewritten.
C3_Witness ==
    /\ req.handled
    /\ req.served
    /\ RecordedAgainst(fixtures[req.name], 8081)
    /\ webserver_port # 8081
    /\ req.wrote # fixtures[req.name]
    /\ Contains(req.wrote, LocalUri(webserver_port))

\* C4 as claimed: in recording mode a failed upstream fetch leaves the
\* handler as a failure, not as a 404, and the fixture store is as it was
\* before the request.
C4_FetchFailurePropagates ==
    [][ (req'.handled /\ req'.fault = "fetch")
        => /\ req'.raised
           /\ req'.error # 404
           /\ fixtures' = fixtures ]_vars

\* the places of path where a decimal number starts: digits, a point,
\* digits, with no digit and no point next to it on either side
NumberStarts(path) ==
    { i \in 1..Len(path) :
        /\ path[i] \in Digit
        /\ (i = 1 \/ path[i - 1] \notin Digit \cup {"."})
        /\ LET n == DigitRun(SubSeq(path, i, Len(path)))
               f == DigitRun(SubSeq(path, i + n + 1, Len(path)))
           IN  /\ i + n <= Len(path)
               /\ path[i + n] = "."
               /\ f >= 1
               /\ (i + n + f = Len(path) \/ path[i + n + f + 1] # ".") }

\* number of digits of the integer part, and of the fraction, of the number
\* that starts at place i
IntegerDigits(path, i) == DigitRun(SubSeq(path, i, Len(path)))
FractionDigits(path, i) ==
    DigitRun(SubSeq(path, i + IntegerDigits(path, i) + 1, Len(path)))

\* the number that starts at place i, with at most four fractional digits
Truncated(path, i) ==
    LET f == FractionDigits(path, i)
        kept == IF f > 4 THEN 4 ELSE f
    IN  SubSeq(path, i, i + IntegerDigits(path, i) + kept)

\* what follows the number that starts at place i
AfterNumber(path, i) ==
    SubSeq(path, i + IntegerDigits(path, i) + 1 + FractionDigits(path, i), Len(path))

\* C5 as claimed: two paths have the same key only if they are the same but
\* for the digits beyond the fourth decimal place of a number; paths that
\* differ in a reserved character, or by "_fakeogcapi" against "request",
\* have different keys.
C5_KeysCollideOnlyByPrecision ==
    req.handled
        => \A other \in GeneratedPaths :
              sanitize_url(other) \o DataSuffix = req.name
                  => PrecisionSub(other) = PrecisionSub(req.path)

C7_ServerLifetime ==
    /\ [](test_active => (webserver_process = "running" /\ webserver_port # 0))
    /\ [](results # << >> => webserver_process \in {"running", "stopped"})
    /\ [](webserver_process = "stopped" => (tests_left = 0 /\ ~test_active))
    /\ (webserver_process = "running") ~> (webserver_process = "stopped")

\* C7 witness: the module is done, a test has failed, and the server is
\* stopped.
C7_Witness ==
    /\ pc = "done"
    /\ webserver_process = "stopped"
    /\ \E k \in 1..Len(results) : results[k] = "failed"

\* C8: in replay mode no step changes the fixture store: no file is
\* created, deleted or modified, although the files are opened "rb+".
C8_ReplayLeavesStore ==
    [][ ~RECORD => fixtures' = fixtures ]_vars

\* C8 witness: in replay mode a fixture has been opened read-write and
\* served.
C8_Witness ==
    /\ ~RECORD
    /\ req.handled
    /\ req.opened = "rb+"
    /\ req.served
    /\ req.wrote # << >>

\* C9: in recording mode a synthetic GET that meets no fault fetches from
\* upstream, stores the rewritten bytes under the key and serves the same
\* bytes; but with RECORD_NEW_ONLY and a file of the key in the store it
\* fetches nothing, serves the stored bytes and leaves the store as it is,
\* and so does every later request of the key, as no step changes a stored
\* file.
C9_RecordsOrServesRecorded ==
    [][ /\ ( /\ req'.handled
             /\ RECORD
             /\ Synthetic(req'.path)
             /\ req'.fault = "none" )
           => IF RECORD_NEW_ONLY /\ req'.name \in DOMAIN fixtures
              THEN /\ ~req'.fetched
                   /\ req'.served
                   /\ req'.wrote = fixtures[req'.name]
                   /\ fixtures' = fixtures
              ELSE /\ req'.fetched
                   /\ req'.served
                   /\ req'.name \in DOMAIN fixtures'
                   /\ fixtures'[req'.name] = req'.wrote
                   /\ Contains(req'.wrote, LocalUri(webserver_port))
                   /\ ~Contains(req'.wrote, ENDPOINT_PATH)
                   /\ \A n \in DOMAIN fixtures \ {req'.name} :
                         n \in DOMAIN fixtures' /\ fixtures'[n] = fixtures[n]
        /\ (RECORD /\ RECORD_NEW_ONLY)
           => \A n \in DOMAIN fixtures :
                 n \in DOMAIN fixtures' /\ fixtures'[n] = fixtures[n] ]_vars

\* C9 witness: with RECORD_NEW_ONLY a request is served, without a fetch,
\* the bytes that a request of this session has recorded.
C9_Witness ==
    /\ RECORD
    /\ RECORD_NEW_ONLY
    /\ req.handled
    /\ req.served
    /\ ~req.fetched
    /\ req.wrote = fixtures[req.name]
    /\ Contains(req.wrote, LocalUri(webserver_port))

\* C10 as claimed: every GET ends in exactly one of two ways, fixture bytes
\* written to the client or a 404 sent, also when the write to the client
\* fails.
C10_ExactlyOneOutcome ==
    req.handled
        => LET found == req.served \/ req.wrote # << >>
               not_found == req.error = 404
           IN  (found \/ not_found) /\ ~(found /\ not_found)
====
